---- MODULE Spec2Model ----
(***************************************************************************)
(* ScriptView: the subtitle feed viewer of src/src/main.rs.                *)
(*                                                                         *)
(* Two specifications live in this module.                                 *)
(*   SpecCollapse  the pure function filter_prefix_subtitles, applied to   *)
(*                 bounded inputs the way the unit tests call it.          *)
(*   Spec          the viewer: SubtitleViewer::new, load_subtitles and the *)
(*                 update callback (drain loop, then the render pass),     *)
(*                 with the feed file, the producer and the watcher as the *)
(*                 environment.                                            *)
(*                                                                         *)
(* Texts are sequences of one-character strings.  Times are in tenths of a *)
(* second.  An Option<T> is a sequence: << >> is None, <<v>> is Some(v).   *)
(***************************************************************************)
EXTENDS Integers, Sequences, FiniteSets, TLC

VARIABLES
    \* ---- the harness of the pure function (SpecCollapse)
    input,          \* Vec<SubtitleEntry> handed to filter_prefix_subtitles
    output,         \* its result
    output2,        \* the result of filtering the result again
    cphase,         \* "idle" | "input" | "filtered" | "refiltered"
    \* ---- the environment of the viewer
    feed,           \* the file /tmp/mpv-subtitles.json
    chan,           \* the mpsc channel tx -> rx: sequence of "Ok" | "Err"
    nSent,          \* messages the watcher has sent so far
    \* ---- SubtitleViewer
    watching,       \* whether watcher.watch(..) returned Ok
    subtitles,      \* self.subtitles: Arc<Mutex<Vec<SubtitleEntry>>>
    mutex,          \* who holds the Mutex: "free" | "reader" (the writer
                    \* takes and drops it within one step, LoadRead)
    file_exists,    \* self.file_exists
    pc,             \* position of the (single) UI thread
    caller,         \* who called load_subtitles: "new" | "update"
    rpos,           \* render pass: entries iterated so far
    seen,           \* render pass: the entries it has drawn
    \* ---- history (not program state)
    atLock,         \* the Vec the render pass found when it took the lock
    lastGood,       \* Option<raw content> of the last reload that read+parsed
    lastLoad,       \* outcome of the last finished reload
    preLoad,        \* subtitles when the last reload started
    statSaw,        \* what exists() answered in the last reload
    nLoads,         \* calls of load_subtitles so far
    nRecvOk,        \* Ok(event) messages taken from rx so far
    leftByDrain     \* messages in rx when the last drain loop ended

cvars == <<input, output, output2, cphase>>
evars == <<feed, chan, nSent>>
pvars == <<watching, subtitles, mutex, file_exists, pc, caller, rpos, seen>>
hvars == <<atLock, lastGood, lastLoad, preLoad, statSaw, nLoads, nRecvOk,
          leftByDrain>>
vars == <<cvars, evars, pvars, hvars>>

\* ---------------------------------------------------------------- bounds
MaxLen == 3         \* entries of an input of the pure function
MaxTextLen == 2     \* characters of a text of such an input
MaxFeedLen == 2     \* objects of a JSON array in the feed file
MaxEvents == 2      \* messages the watcher sends in one run

Alphabet == {"a", "b"}

None == << >>
Some(v) == <<v>>

\* ------------------------------------------------------- SubtitleEntry
SubtitleEntry(text, start_time, end_time, timestamp) ==
    [text |-> text, start_time |-> start_time,
     end_time |-> end_time, timestamp |-> timestamp]

\* tests::create_subtitle
create_subtitle(text, start_time) == SubtitleEntry(text, start_time, None, 0)

\* ------------------------------------------- filter_prefix_subtitles
\* Mutant: a proper prefix only (an equal text is not a prefix).
starts_with_proper(s, pat) ==
    /\ Len(pat) < Len(s)
    /\ \A k \in 1..Len(pat) : s[k] = pat[k]

\* str::starts_with(&self, pat): self begins with the characters of pat.
starts_with(s, pat) ==
    /\ Len(pat) <= Len(s)
    /\ \A k \in 1..Len(pat) : s[k] = pat[k]

\* Mutant: also drops an entry whose text is a prefix of the entry two
\* places on (looks past the immediate successor).
should_include_far(subs, i) ==
    IF i < Len(subs)
    THEN /\ ~starts_with(subs[i + 1].text, subs[i].text)
         /\ (i + 1 < Len(subs) => ~starts_with(subs[i + 2].text, subs[i].text))
    ELSE TRUE

\* Mutant: keeps the first member of a chain (drops an entry that extends
\* its predecessor).
should_include_first(subs, i) ==
    IF i > 1
    THEN ~starts_with(subs[i].text, subs[i - 1].text)
    ELSE TRUE

\* The loop body's test, lines 48-54.  Indices are 1-based here, so the
\* code's "i < subtitles.len() - 1" reads "i < Len(subs)".
should_include(subs, i) ==
    IF i < Len(subs)
    THEN ~starts_with(subs[i + 1].text, subs[i].text)
    ELSE TRUE

\* Mutant: the retained entry takes over the start_time of the entry it
\* replaced ("merge" instead of "select").
push_merged(filtered, subs, i) ==
    Append(filtered,
           IF i > 1 /\ starts_with(subs[i].text, subs[i - 1].text)
           THEN [subs[i] EXCEPT !.start_time = subs[i - 1].start_time]
           ELSE subs[i])

\* filtered.push(subtitles[i].clone()), line 57.
push_clone(filtered, subs, i) == Append(filtered, subs[i])

RECURSIVE filter_loop(_, _, _)
filter_loop(subs, i, filtered) ==
    IF i > Len(subs)
    THEN filtered
    ELSE filter_loop(subs, i + 1,
                     IF should_include(subs, i)
                     THEN push_clone(filtered, subs, i)
                     ELSE filtered)

filter_prefix_subtitles(subs) == filter_loop(subs, 1, << >>)

\* ------------------------------------------------ inputs of the harness
Texts == UNION {[1..n -> Alphabet] : n \in 0..MaxTextLen}

\* An input built from texts: the k-th entry carries fields that tell it
\* apart from every other entry of the input.
EntryAt(text, k) ==
    SubtitleEntry(text, 10 * k, IF k % 2 = 0 THEN Some(10 * k + 5) ELSE None, k)

EntriesOf(texts) == [k \in 1..Len(texts) |-> EntryAt(texts[k], k)]

BoundedInputs == {EntriesOf(ts) : ts \in UNION {[1..n -> Texts] : n \in 0..MaxLen}}

\* The vectors of the unit tests, lines 277-389, and of their texts.
T_H == <<"H">>
T_He == <<"H", "e">>
T_Hel == <<"H", "e", "l">>
T_Hell == <<"H", "e", "l", "l">>
T_Hello == <<"H", "e", "l", "l", "o">>
T_HelloWorld == <<"H", "e", "l", "l", "o", " ", "w", "o", "r", "l", "d">>
T_HelloThere == <<"H", "e", "l", "l", "o", " ", "t", "h", "e", "r", "e">>
T_Helicopter == <<"H", "e", "l", "i", "c", "o", "p", "t", "e", "r">>
T_Goodbye == <<"G", "o", "o", "d", "b", "y", "e">>
T_GoodbyeWorld == <<"G", "o", "o", "d", "b", "y", "e", " ", "w", "o", "r", "l", "d">>
T_Another == <<"A", "n", "o", "t", "h", "e", "r", " ", "s", "u", "b", "t", "i", "t", "l", "e">>
T_World == <<"W", "o", "r", "l", "d">>
T_Next == <<"N", "e", "x", "t", " ", "s", "u", "b", "t", "i", "t", "l", "e">>
T_OnlyOne == <<"O", "n", "l", "y", " ", "o", "n", "e">>
T_I == <<"I">>
T_Ia == <<"I", " ", "a">>
T_Iam == <<"I", " ", "a", "m">>
T_IamT == <<"I", " ", "a", "m", " ", "t">>
T_IamTy == <<"I", " ", "a", "m", " ", "t", "y">>
T_IamTyp == <<"I", " ", "a", "m", " ", "t", "y", "p">>
T_IamTypi == <<"I", " ", "a", "m", " ", "t", "y", "p", "i">>
T_IamTypin == <<"I", " ", "a", "m", " ", "t", "y", "p", "i", "n">>
T_IamTyping == <<"I", " ", "a", "m", " ", "t", "y", "p", "i", "n", "g">>
T_IamTypingThis == <<"I", " ", "a", "m", " ", "t", "y", "p", "i", "n", "g", " ", "t", "h", "i", "s">>
T_IamTypingThisMessage == <<"I", " ", "a", "m", " ", "t", "y", "p", "i", "n", "g", " ", "t", "h", "i", "s", " ", "m", "e", "s", "s", "a", "g", "e">>

\* create_subtitle(text, start_time) for each text; the start times of the
\* tests differ from these, and the filter does not read them.
TestOf(texts) == [k \in 1..Len(texts) |-> create_subtitle(texts[k], 5 * (k + 1))]

test_filter_no_prefixes == TestOf(<<T_HelloWorld, T_GoodbyeWorld, T_Another>>)
test_filter_single_prefix == TestOf(<<T_Hello, T_HelloWorld, T_Goodbye>>)
test_filter_multiple_prefixes ==
    TestOf(<<T_H, T_He, T_Hel, T_Hell, T_Hello, T_HelloWorld, T_Next>>)
test_filter_keeps_last_subtitle == TestOf(<<T_Hello, T_World>>)
test_filter_empty_list == << >>
test_filter_single_subtitle == TestOf(<<T_OnlyOne>>)
test_filter_progressive_typing ==
    TestOf(<<T_I, T_Ia, T_Iam, T_IamT, T_IamTy, T_IamTyp, T_IamTypi, T_IamTypin,
             T_IamTyping, T_IamTypingThis, T_IamTypingThisMessage, T_Next>>)
test_filter_non_prefix_similar_start ==
    TestOf(<<T_HelloWorld, T_HelloThere, T_Helicopter>>)
\* The two examples of the documentation of the algorithm.
example_chain == TestOf(<<T_H, T_He, T_Hel, T_Hell, T_Hello>>)
example_mixed == TestOf(<<T_I, T_Ia, T_Iam, T_Next>>)

TestInputs ==
    {test_filter_no_prefixes, test_filter_single_prefix,
     test_filter_multiple_prefixes, test_filter_keeps_last_subtitle,
     test_filter_empty_list, test_filter_single_subtitle,
     test_filter_progressive_typing, test_filter_non_prefix_similar_start,
     example_chain, example_mixed}

Inputs == BoundedInputs \cup TestInputs

\* ------------------------------------------------------ the feed file
\* A JSON value: a string, a number, null, or an absent key.
JStr(s) == [t |-> "str", n |-> 0, s |-> s]
JNum(n) == [t |-> "num", n |-> n, s |-> << >>]
JNull == [t |-> "null", n |-> 0, s |-> << >>]
JAbsent == [t |-> "absent", n |-> 0, s |-> << >>]

JObject(text, start_time, end_time, timestamp) ==
    [text |-> text, start_time |-> start_time,
     end_time |-> end_time, timestamp |-> timestamp]

\* The objects the producer writes: two well-formed ones, the first a prefix
\* of the second, and one cut short (its timestamp is missing).
ObjA == JObject(JStr(<<"a">>), JNum(10), JAbsent, JNum(1))
ObjAB == JObject(JStr(<<"a", "b">>), JNum(15), JNum(20), JNum(2))
ObjCut == JObject(JStr(<<"a", "b">>), JNum(20), JNull, JAbsent)
FeedObjects == {ObjA, ObjAB, ObjCut}

FeedArrays == UNION {[1..n -> FeedObjects] : n \in 0..MaxFeedLen}

\* What the file holds: a JSON array, or text that is no JSON array.
Raw(kind, items) == [kind |-> kind, items |-> items]
Garbage == Raw("garbage", << >>)
Contents == {Raw("array", a) : a \in FeedArrays} \cup {Garbage}

\* The file: missing, present but unreadable (no permission, not UTF-8),
\* or a readable file with some content.
File(state, raw) == [state |-> state, raw |-> raw]
Missing == File("missing", Garbage)
Unreadable == File("unreadable", Garbage)
FeedStates == {Missing, Unreadable} \cup {File("file", c) : c \in Contents}

\* Result<T, E>
Ok(v) == [ok |-> TRUE, val |-> v]
Err == [ok |-> FALSE, val |-> << >>]

\* Mutant: the presence status follows the success of the read.
path_is_readable(f) == f.state = "file"

\* Path::exists, line 97.
path_exists(f) == f.state # "missing"

\* std::fs::read_to_string, line 99.
read_to_string(f) == IF f.state = "file" THEN [ok |-> TRUE, val |-> f.raw]
                     ELSE [ok |-> FALSE, val |-> Garbage]

\* #[derive(Deserialize)] struct SubtitleEntry, lines 11-18: text, start_time
\* and timestamp are required; end_time is an Option, None when the key is
\* absent or null.
decodable(o) ==
    /\ o.text.t = "str"
    /\ o.start_time.t = "num"
    /\ o.end_time.t \in {"num", "null", "absent"}
    /\ o.timestamp.t = "num"

decode(o) ==
    SubtitleEntry(o.text.s, o.start_time.n,
                  IF o.end_time.t = "num" THEN Some(o.end_time.n) ELSE None,
                  o.timestamp.n)

\* serde_json::from_str::<Vec<SubtitleEntry>>, line 100.
from_str(raw) ==
    IF raw.kind = "array" /\ \A k \in 1..Len(raw.items) : decodable(raw.items[k])
    THEN Ok([k \in 1..Len(raw.items) |-> decode(raw.items[k])])
    ELSE Err

\* Mutant: extends the stored Vec instead of replacing it.
replace_extend(old, new) == old \o new

\* *subtitles = filtered_subs, line 103.
replace(old, new) == new

\* Mutant: content that does not parse stores the default (empty) Vec.
load_result_parse_clears(f, old) ==
    IF read_to_string(f).ok
    THEN IF from_str(read_to_string(f).val).ok
         THEN replace(old, filter_prefix_subtitles(from_str(read_to_string(f).val).val))
         ELSE << >>
    ELSE old

\* Mutant: a failed read stores the default (empty) Vec.
load_result_read_clears(f, old) ==
    IF read_to_string(f).ok
    THEN IF from_str(read_to_string(f).val).ok
         THEN replace(old, filter_prefix_subtitles(from_str(read_to_string(f).val).val))
         ELSE old
    ELSE << >>

\* Lines 99-105: what self.subtitles holds after them.
load_result(f, old) ==
    IF read_to_string(f).ok
    THEN IF from_str(read_to_string(f).val).ok
         THEN replace(old, filter_prefix_subtitles(from_str(read_to_string(f).val).val))
         ELSE old
    ELSE old

load_outcome(f) ==
    IF ~read_to_string(f).ok THEN "read_failed"
    ELSE IF ~from_str(read_to_string(f).val).ok THEN "parse_failed"
    ELSE "ok"

\* Mutant: reloads on an Err message instead of an Ok one.
reload_on_err(event) == event = "Err"

\* if let Ok(_) = event, line 133.
reload_on(event) == event = "Ok"

\* ------------------------------------------------------ initial states
HarnessIdle ==
    /\ input = << >>
    /\ output = << >>
    /\ output2 = << >>
    /\ cphase = "idle"

ViewerUnbuilt ==
    /\ chan = << >>
    /\ nSent = 0
    /\ watching = FALSE
    /\ subtitles = << >>
    /\ mutex = "free"
    /\ file_exists = FALSE
    /\ pc = "new"
    /\ caller = "new"
    /\ rpos = 0
    /\ seen = << >>
    /\ atLock = << >>
    /\ lastGood = None
    /\ lastLoad = "none"
    /\ preLoad = << >>
    /\ statSaw = FALSE
    /\ nLoads = 0
    /\ nRecvOk = 0
    /\ leftByDrain = 0

\* The process starts with the feed file in any state.
Init ==
    /\ HarnessIdle
    /\ ViewerUnbuilt
    /\ feed \in FeedStates

InitCollapse ==
    /\ input \in Inputs
    /\ output = << >>
    /\ output2 = << >>
    /\ cphase = "input"
    /\ ViewerUnbuilt
    /\ feed = Missing

\* ------------------------------------------------- harness of the filter
Filter ==
    /\ cphase = "input"
    /\ output' = filter_prefix_subtitles(input)
    /\ cphase' = "filtered"
    /\ UNCHANGED <<input, output2, evars, pvars, hvars>>

FilterAgain ==
    /\ cphase = "filtered"
    /\ output2' = filter_prefix_subtitles(output)
    /\ cphase' = "refiltered"
    /\ UNCHANGED <<input, output, evars, pvars, hvars>>

NextCollapse == Filter \/ FilterAgain

SpecCollapse == InitCollapse /\ [][NextCollapse]_vars

\* ------------------------------------------------------ the environment
\* The watcher sends one message per change of the watched file, if the
\* watch was established.
Notify(msg) ==
    IF watching
    THEN /\ nSent < MaxEvents
         /\ chan' = Append(chan, msg)
         /\ nSent' = nSent + 1
    ELSE UNCHANGED <<chan, nSent>>

\* The producer rewrites the file (also with the content it already has).
ProducerWrite ==
    /\ pc # "new"
    /\ \E c \in Contents : feed' = File("file", c)
    /\ Notify("Ok")
    /\ UNCHANGED <<cvars, pvars, hvars>>

\* The producer removes the file.
ProducerRemove ==
    /\ pc # "new"
    /\ feed.state # "missing"
    /\ feed' = Missing
    /\ Notify("Ok")
    /\ UNCHANGED <<cvars, pvars, hvars>>

\* The file becomes unreadable (permissions, bytes that are not UTF-8).
ProducerGarble ==
    /\ pc # "new"
    /\ feed.state # "unreadable"
    /\ feed' = Unreadable
    /\ Notify("Ok")
    /\ UNCHANGED <<cvars, pvars, hvars>>

\* The watcher reports an error of its own: an Err(..) message.
WatcherError ==
    /\ pc # "new"
    /\ watching
    /\ nSent < MaxEvents
    /\ chan' = Append(chan, "Err")
    /\ nSent' = nSent + 1
    /\ UNCHANGED <<feed, cvars, pvars, hvars>>

\* ------------------------------------------------------ SubtitleViewer
\* The call of load_subtitles: the caller's return point is kept.
CallLoad(from) ==
    /\ pc' = "stat"
    /\ caller' = from
    /\ nLoads' = nLoads + 1
    /\ preLoad' = subtitles

\* SubtitleViewer::new, lines 64-91, up to the call of load_subtitles.
\* watcher.watch(path) returns Err for a path that does not exist; the
\* error is only logged (lines 70-74) and no message is ever sent then.
New ==
    /\ pc = "new"
    /\ watching' = path_exists(feed)
    /\ subtitles' = << >>
    /\ file_exists' = FALSE
    /\ CallLoad("new")
    /\ UNCHANGED <<cvars, evars, mutex, rpos, seen,
                   atLock, lastGood, lastLoad, statSaw, nRecvOk, leftByDrain>>

\* load_subtitles, line 97.
LoadStat ==
    /\ pc = "stat"
    /\ file_exists' = path_exists(feed)
    /\ statSaw' = (feed.state # "missing")
    /\ pc' = "read"
    /\ UNCHANGED <<cvars, evars, watching, subtitles, mutex, caller, rpos, seen,
                   atLock, lastGood, lastLoad, preLoad, nLoads, nRecvOk, leftByDrain>>

\* load_subtitles, lines 99-105, and the return to the caller.
LoadRead ==
    /\ pc = "read"
    /\ mutex = "free"
    /\ subtitles' = load_result(feed, subtitles)
    /\ lastLoad' = load_outcome(feed)
    /\ lastGood' = IF load_outcome(feed) = "ok" THEN Some(feed.raw) ELSE lastGood
    /\ pc' = IF caller = "new" THEN "idle" ELSE "drain"
    /\ UNCHANGED <<cvars, evars, watching, mutex, file_exists, caller, rpos, seen,
                   atLock, preLoad, statSaw, nLoads, nRecvOk, leftByDrain>>

\* eframe calls update (it asks for a repaint every 100 ms, line 139).
UpdateTick ==
    /\ pc = "idle"
    /\ pc' = "drain"
    /\ UNCHANGED <<cvars, evars, watching, subtitles, mutex, file_exists, caller,
                   rpos, seen, hvars>>

\* One turn of the drain loop, lines 132-136: a message is taken from rx.
DrainRecv ==
    /\ pc = "drain"
    /\ chan # << >>
    /\ chan' = Tail(chan)
    /\ IF reload_on(Head(chan))
       THEN /\ CallLoad("update")
            /\ nRecvOk' = nRecvOk + IF Head(chan) = "Ok" THEN 1 ELSE 0
       ELSE /\ nRecvOk' = nRecvOk + IF Head(chan) = "Ok" THEN 1 ELSE 0
            /\ UNCHANGED <<pc, caller, nLoads, preLoad>>
    /\ UNCHANGED <<cvars, feed, nSent, watching, subtitles, mutex, file_exists,
                   rpos, seen, atLock, lastGood, lastLoad, statSaw, leftByDrain>>

\* try_recv finds the channel empty: the loop ends and the render pass
\* takes the lock, line 203.
DrainExit ==
    /\ pc = "drain"
    /\ chan = << >>
    /\ mutex = "free"
    /\ mutex' = "reader"
    /\ rpos' = 0
    /\ seen' = << >>
    /\ atLock' = subtitles
    /\ leftByDrain' = Len(chan)
    /\ pc' = "render"
    /\ UNCHANGED <<cvars, evars, watching, subtitles, file_exists, caller,
                   lastGood, lastLoad, preLoad, statSaw, nLoads, nRecvOk>>

\* for sub in subtitles.iter(), lines 220-239: one entry is drawn.
RenderIter ==
    /\ pc = "render"
    /\ rpos < Len(subtitles)
    /\ seen' = Append(seen, subtitles[rpos + 1])
    /\ rpos' = rpos + 1
    /\ UNCHANGED <<cvars, evars, watching, subtitles, mutex, file_exists, pc,
                   caller, hvars>>

\* The guard is dropped at the end of the closure, line 244; update returns.
RenderEnd ==
    /\ pc = "render"
    /\ rpos = Len(subtitles)
    /\ mutex' = "free"
    /\ pc' = "idle"
    /\ UNCHANGED <<cvars, evars, watching, subtitles, file_exists, caller,
                   rpos, seen, hvars>>

Next ==
    \/ New
    \/ LoadStat
    \/ LoadRead
    \/ UpdateTick
    \/ DrainRecv
    \/ DrainExit
    \/ RenderIter
    \/ RenderEnd
    \/ ProducerWrite
    \/ ProducerRemove
    \/ ProducerGarble
    \/ WatcherError

Spec == Init /\ [][Next]_vars

\* ============================================================== claims
\* The statements below are written without the operators of the filter:
\* a literal prefix is spelled out, and the expected result is selected by
\* index sets.

\* p is a literal prefix of t: t cut after some k of its characters is p
\* (k = 0: the empty text; k = Len(t): an equal text).
IsLiteralPrefix(p, t) == \E k \in 0..Len(t) : p = SubSeq(t, 1, k)

\* The positions the algorithm is documented to retain.
Kept(S) ==
    {i \in 1..Len(S) : i = Len(S) \/ ~IsLiteralPrefix(S[i].text, S[i + 1].text)}

\* The entries of S at the positions K, in input order.
SelectIdx(S, K) ==
    [k \in 1..Cardinality(K) |->
        S[CHOOSE i \in K : Cardinality({j \in K : j <= i}) = k]]

CollapseOf(S) == SelectIdx(S, Kept(S))

NoAdjacentPrefix(S) ==
    \A i \in 1..(Len(S) - 1) : ~IsLiteralPrefix(S[i].text, S[i + 1].text)

TextsOf(S) == [k \in 1..Len(S) |-> S[k].text]

\* a is a subsequence of b (whole elements, order kept).
RECURSIVE IsSubseq(_, _)
IsSubseq(a, b) ==
    IF a = << >> THEN TRUE
    ELSE IF b = << >> THEN FALSE
    ELSE IF Head(a) = Head(b) THEN IsSubseq(Tail(a), Tail(b))
    ELSE IsSubseq(a, Tail(b))

\* A maximal run a..b of entries each a literal prefix of the next.
IsRun(S, a, b) ==
    /\ a <= b
    /\ \A k \in a..(b - 1) : IsLiteralPrefix(S[k].text, S[k + 1].text)
    /\ a = 1 \/ ~IsLiteralPrefix(S[a - 1].text, S[a].text)
    /\ b = Len(S) \/ ~IsLiteralPrefix(S[b].text, S[b + 1].text)

Runs(S) == {r \in (1..Len(S)) \X (1..Len(S)) : IsRun(S, r[1], r[2])}

\* No retained entry is a literal prefix of the next retained entry.
ChainSeparated(S) ==
    \A i, j \in Kept(S) :
        (i < j /\ \A m \in Kept(S) : ~(i < m /\ m < j))
            => ~IsLiteralPrefix(S[i].text, S[j].text)

\* The Transcript that a last good raw content stands for.
ExpectedTranscript(good) ==
    IF good = None THEN << >> ELSE CollapseOf(from_str(good[1]).val)

OutsideLoad == pc \notin {"new", "stat", "read"}

\* ---- C1 (Spec).  After any sequence of reloads over any feed states the
\* stored Transcript equals collapse(parse(c)) for the raw content c of
\* the last reload whose read and parse succeeded, and is empty if there
\* was none.
C1_TranscriptIsDerived ==
    /\ lastGood # None => from_str(lastGood[1]).ok
    /\ subtitles = ExpectedTranscript(lastGood)

\* C1's case: a reload failed after a good one whose content collapsed.
C1_Witness ==
    /\ lastLoad = "read_failed"
    /\ pc = "drain"
    /\ lastGood # None
    /\ subtitles # << >>
    /\ Len(subtitles) < Len(lastGood[1].items)

\* ---- C2 (Spec).  A reload whose read or parse fails leaves the
\* Transcript equal to the value it had when the reload began.
C2_FailedReloadKeepsTranscript ==
    (OutsideLoad /\ lastLoad \in {"read_failed", "parse_failed"})
        => subtitles = preLoad

\* C2's case: a parse failure with a non-empty Transcript in place.
C2_Witness ==
    /\ lastLoad = "parse_failed"
    /\ pc = "drain"
    /\ subtitles # << >>
    /\ feed.state = "file"

\* ---- C3 (SpecCollapse), as stated: collapse(collapse(S)) = collapse(S)
\* for every S.
C3_Idempotent == cphase = "refiltered" => output2 = output

\* ---- C3 (SpecCollapse), amended: collapsing a result again yields a
\* subsequence of it with the same last entry; it yields the result itself
\* exactly when no entry of the result is a literal prefix of its
\* successor, which is the case whenever no retained entry of S is a
\* literal prefix of the next retained entry of S.
C3_FixedPointWhenSeparated ==
    cphase = "refiltered" =>
        /\ IsSubseq(output2, output)
        /\ output # << >> => /\ output2 # << >>
                             /\ output2[Len(output2)] = output[Len(output)]
        /\ (output2 = output) <=> NoAdjacentPrefix(output)
        /\ ChainSeparated(input) => output2 = output

\* C3's case: an input that loses entries and whose result is a fixed point.
C3_Witness ==
    /\ cphase = "refiltered"
    /\ ChainSeparated(input)
    /\ Len(output) < Len(input)
    /\ Len(output) >= 2
    /\ output2 = output

\* ---- C4 (SpecCollapse).  collapse(S) is, in input order, exactly the
\* entries S[i] with i last or S[i].text not a literal prefix of
\* S[i+1].text; so the empty input, a single entry and an input without an
\* adjacent prefix pair come back unchanged, and an entry that is no prefix
\* of its immediate successor is kept whatever follows later.
C4_CollapseExact ==
    cphase # "input" =>
        /\ output = CollapseOf(input)
        /\ input = << >> => output = << >>
        /\ Len(input) = 1 => output = input
        /\ NoAdjacentPrefix(input) => output = input
        /\ \A i \in 1..(Len(input) - 1) :
              ~IsLiteralPrefix(input[i].text, input[i + 1].text)
                  => \E k \in 1..Len(output) : output[k] = input[i]

\* C4's case: the middle entry, a prefix of its successor, is dropped, and
\* the two equal texts around it, which are not adjacent, are both kept.
C4_Witness ==
    /\ cphase = "filtered"
    /\ Len(input) = 3
    /\ input[1].text = input[3].text
    /\ output = <<input[1], input[3]>>

\* ---- C5 (SpecCollapse).  collapse keeps exactly one entry per maximal
\* run of consecutive entries each a literal prefix of the next, the run's
\* last member, in the order of the runs (an entry in no chain is a run of
\* its own); the two documented examples come out as documented.
C5_OnePerRun ==
    cphase # "input" =>
        /\ Len(output) = Cardinality(Runs(input))
        /\ \A r \in Runs(input) :
              output[Cardinality({q \in Runs(input) : q[1] <= r[1]})] = input[r[2]]
        /\ input = example_chain => TextsOf(output) = <<T_Hello>>
        /\ input = example_mixed => TextsOf(output) = <<T_Iam, T_Next>>

\* C5's case: the five-step chain has been collapsed to its last member.
C5_Witness ==
    /\ cphase = "filtered"
    /\ input = example_chain
    /\ Len(output) = 1

\* ---- C6 (SpecCollapse).  collapse(S) is a subsequence of S made of whole
\* entries, so it is no longer than S, and the last entry of a non-empty S
\* is the last entry of the result.
C6_WholeEntrySubsequence ==
    cphase # "input" =>
        /\ IsSubseq(output, input)
        /\ Len(output) <= Len(input)
        /\ input # << >> => /\ output # << >>
                            /\ output[Len(output)] = input[Len(input)]

\* C6's case: some entries were dropped and more than one was retained.
C6_Witness ==
    /\ cphase = "filtered"
    /\ Len(output) >= 2
    /\ Len(output) < Len(input)
    /\ output[1].end_time # None

\* ---- C7 (Spec).  Once the producer has stopped and the writer has
\* drained the channel, the Transcript is collapse(parse(content)) of the
\* content the feed then has, if that content reads and parses.
C7_FinalStateReflected ==
    (pc \in {"render", "idle"} /\ chan = << >> /\ load_outcome(feed) = "ok")
        => subtitles = ExpectedTranscript(Some(feed.raw))

C10_OneReloadPerSignal ==
    /\ pc = "new" => nLoads = 0 /\ nRecvOk = 0
    /\ pc # "new" => nLoads = 1 + nRecvOk
    /\ nLoads = 1 /\ pc \in {"stat", "read"} => caller = "new"
    /\ leftByDrain = 0

\* C10's case: two signals were drained by one update, after the startup
\* reload.
C10_Witness ==
    /\ pc = "render"
    /\ nRecvOk = 2
    /\ nLoads = 3
    /\ leftByDrain = 0

====
